---------------------------- MODULE Spec2Model ----------------------------
(***************************************************************************)
(* jsonpath_ng/parser.py: the LALR parser for JsonPath.                    *)
(*                                                                         *)
(* JsonPathParser declares a grammar (the docstrings of its p_* methods),  *)
(* a precedence table and one semantic action per p_* method, and hands    *)
(* them to ply.yacc.yacc, which builds an LALR(1) table.  parse() pulls    *)
(* tokens through IteratorToTokenStream.token and drives the table.        *)
(*                                                                         *)
(* The module has four parts:                                              *)
(*   1. Python values and the AST nodes the actions build;                 *)
(*   2. the grammar, the precedence table and the LALR(1) table that       *)
(*      ply.yacc.yacc derives from them (LR(0) items, DeRemer-Pennello     *)
(*      lookaheads, precedence resolution of shift/reduce conflicts);      *)
(*   3. the parse as a state machine: one action per p_* method, plus      *)
(*      token fetch, shift, accept and p_error;                            *)
(*   4. the properties of the parse, over bounded families of streams.     *)
(***************************************************************************)
EXTENDS Integers, Sequences, FiniteSets, TLC

(***************************************************************************)
(* 1. Python values.  Every value carries its type in the field py, so     *)
(* that None, 0, '*' and ['*'] are four different values.                  *)
(***************************************************************************)
PyNone == [py |-> "None"]
PyStr(s) == [py |-> "str", s |-> s]
PyInt(n) == [py |-> "int", n |-> n]
PyList(xs) == [py |-> "list", items |-> xs]

\* The AST nodes (jsonpath_ng.jsonpath), as the parser constructs them.
Root == [py |-> "Root"]
This == [py |-> "This"]
Parent == [py |-> "Parent"]
\* Fields(*fields): the positional arguments, kept as a tuple.
Fields(fields) == [py |-> "Fields", fields |-> fields]
Index(index) == [py |-> "Index", index |-> index]
\* Slice(start=None, end=None, step=None), called with 0, 2 or 3 positional
\* arguments.
Slice(args) ==
    [py |-> "Slice",
     start |-> IF Len(args) >= 1 THEN args[1] ELSE PyNone,
     end |-> IF Len(args) >= 2 THEN args[2] ELSE PyNone,
     step |-> IF Len(args) >= 3 THEN args[3] ELSE PyNone]
Child(left, right) == [py |-> "Child", left |-> left, right |-> right]
Descendants(left, right) == [py |-> "Descendants", left |-> left, right |-> right]
Where(left, right) == [py |-> "Where", left |-> left, right |-> right]
Union(left, right) == [py |-> "Union", left |-> left, right |-> right]
Intersect(left, right) == [py |-> "Intersect", left |-> left, right |-> right]

(***************************************************************************)
(* 2. The grammar: one entry per alternative of a p_* docstring, in the    *)
(* order of the source.  Entry 1 is the rule S' -> jsonpath that yacc adds *)
(* for start = 'jsonpath'.                                                 *)
(***************************************************************************)
start_symbol == "jsonpath"

Productions ==
    << [func |-> "S'", lhs |-> "S'", rhs |-> <<start_symbol>>],
       [func |-> "p_jsonpath_binop", lhs |-> "jsonpath", rhs |-> <<"jsonpath", ".", "jsonpath">>],
       [func |-> "p_jsonpath_binop", lhs |-> "jsonpath", rhs |-> <<"jsonpath", "DOUBLEDOT", "jsonpath">>],
       [func |-> "p_jsonpath_binop", lhs |-> "jsonpath", rhs |-> <<"jsonpath", "WHERE", "jsonpath">>],
       [func |-> "p_jsonpath_binop", lhs |-> "jsonpath", rhs |-> <<"jsonpath", "|", "jsonpath">>],
       [func |-> "p_jsonpath_binop", lhs |-> "jsonpath", rhs |-> <<"jsonpath", "&", "jsonpath">>],
       [func |-> "p_jsonpath_fields", lhs |-> "jsonpath", rhs |-> <<"fields_or_any">>],
       [func |-> "p_jsonpath_named_operator", lhs |-> "jsonpath", rhs |-> <<"NAMED_OPERATOR">>],
       [func |-> "p_jsonpath_root", lhs |-> "jsonpath", rhs |-> <<"$">>],
       [func |-> "p_jsonpath_idx", lhs |-> "jsonpath", rhs |-> <<"[", "idx", "]">>],
       [func |-> "p_jsonpath_slice", lhs |-> "jsonpath", rhs |-> <<"[", "slice", "]">>],
       [func |-> "p_jsonpath_fieldbrackets", lhs |-> "jsonpath", rhs |-> <<"[", "fields", "]">>],
       [func |-> "p_jsonpath_child_fieldbrackets", lhs |-> "jsonpath", rhs |-> <<"jsonpath", "[", "fields", "]">>],
       [func |-> "p_jsonpath_child_idxbrackets", lhs |-> "jsonpath", rhs |-> <<"jsonpath", "[", "idx", "]">>],
       [func |-> "p_jsonpath_child_slicebrackets", lhs |-> "jsonpath", rhs |-> <<"jsonpath", "[", "slice", "]">>],
       [func |-> "p_jsonpath_parens", lhs |-> "jsonpath", rhs |-> <<"(", "jsonpath", ")">>],
       [func |-> "p_fields_or_any", lhs |-> "fields_or_any", rhs |-> <<"fields">>],
       [func |-> "p_fields_or_any", lhs |-> "fields_or_any", rhs |-> <<"*">>],
       [func |-> "p_fields_id", lhs |-> "fields", rhs |-> <<"ID">>],
       [func |-> "p_fields_comma", lhs |-> "fields", rhs |-> <<"fields", ",", "fields">>],
       [func |-> "p_idx", lhs |-> "idx", rhs |-> <<"NUMBER">>],
       [func |-> "p_slice_any", lhs |-> "slice", rhs |-> <<"*">>],
       [func |-> "p_slice", lhs |-> "slice", rhs |-> <<"maybe_int", ":", "maybe_int">>],
       [func |-> "p_slice", lhs |-> "slice", rhs |-> <<"maybe_int", ":", "maybe_int", ":", "maybe_int">>],
       [func |-> "p_maybe_int", lhs |-> "maybe_int", rhs |-> <<"NUMBER">>],
       [func |-> "p_maybe_int", lhs |-> "maybe_int", rhs |-> <<"empty">>],
       [func |-> "p_empty", lhs |-> "empty", rhs |-> <<>>] >>

\* precedence: lowest level first; a token's level is its position.
\* Two other tables, for comparison: one that ranks '.' above '|', '&' and
\* 'where', and one with the source's ranks but right-associative operators.
precedence_child_tightest ==
    << <<"left", ",">>,
       <<"left", "DOUBLEDOT">>,
       <<"left", "|">>,
       <<"left", "&">>,
       <<"left", "WHERE">>,
       <<"left", ".">> >>

precedence_right ==
    << <<"left", ",">>,
       <<"right", "DOUBLEDOT">>,
       <<"right", ".">>,
       <<"right", "|">>,
       <<"right", "&">>,
       <<"right", "WHERE">> >>

precedence ==
    << <<"left", ",">>,
       <<"left", "DOUBLEDOT">>,
       <<"left", ".">>,
       <<"left", "|">>,
       <<"left", "&">>,
       <<"left", "WHERE">> >>

ProdIds == DOMAIN Productions
\* The nonterminals of the grammar proper (S' has no transition).
Nonterminals == {Productions[q].lhs : q \in ProdIds \ {1}}
\* The symbols of the grammar in a fixed order (used to number the states).
SymbolSeq ==
    << "jsonpath", "fields_or_any", "fields", "idx", "slice", "maybe_int", "empty",
       ".", "DOUBLEDOT", "WHERE", "|", "&", "NAMED_OPERATOR", "$", "[", "]",
       "(", ")", "*", "ID", ",", "NUMBER", ":" >>
Symbols == {SymbolSeq[k] : k \in DOMAIN SymbolSeq}
Terminals == Symbols \ Nonterminals
EndMarker == "$end"
Lookaheads == Terminals \cup {EndMarker}

(***************************************************************************)
(* The LR(0) automaton (ply.yacc.LRGeneratedTable.lr0_closure, lr0_goto,   *)
(* lr0_items).  An item <<q, d>> is production q with the dot after d      *)
(* symbols.                                                                *)
(***************************************************************************)
NoSymbol == ""
NextSymbol(item) ==
    LET rhs == Productions[item[1]].rhs
    IN IF item[2] < Len(rhs) THEN rhs[item[2] + 1] ELSE NoSymbol

RECURSIVE lr0_closure(_)
lr0_closure(I) ==
    LET wanted == {NextSymbol(item) : item \in I}
        J == I \cup {<<q, 0>> : q \in {r \in ProdIds : Productions[r].lhs \in wanted}}
    IN IF J = I THEN I ELSE lr0_closure(J)

lr0_goto(I, x) ==
    lr0_closure({<<item[1], item[2] + 1>> : item \in {it \in I : NextSymbol(it) = x}})

RECURSIVE AddGotos(_, _, _)
AddGotos(C, I, k) ==
    IF k > Len(SymbolSeq) THEN C
    ELSE LET J == lr0_goto(I, SymbolSeq[k])
         IN AddGotos(IF J = {} \/ \E n \in DOMAIN C : C[n] = J THEN C ELSE Append(C, J),
                     I, k + 1)

RECURSIVE lr0_items(_, _)
lr0_items(C, i) ==
    IF i > Len(C) THEN C ELSE lr0_items(AddGotos(C, C[i], 1), i + 1)

\* The states, numbered from 1; state 1 holds S' -> . jsonpath.
LRStates == lr0_items(<<lr0_closure({<<1, 0>>})>>, 1)
StateIds == DOMAIN LRStates

\* goto on any symbol; 0 where there is none.
GotoTable ==
    [i \in StateIds |->
        [x \in Symbols |->
            LET J == lr0_goto(LRStates[i], x)
            IN IF J = {} THEN 0 ELSE CHOOSE n \in StateIds : LRStates[n] = J]]

(***************************************************************************)
(* LALR(1) lookaheads (DeRemer and Pennello, as in ply.yacc).              *)
(***************************************************************************)
RECURSIVE compute_nullable(_)
compute_nullable(N) ==
    LET M == N \cup {Productions[q].lhs : q \in
                        {r \in ProdIds : \A k \in DOMAIN Productions[r].rhs :
                                            Productions[r].rhs[k] \in N}}
    IN IF M = N THEN N ELSE compute_nullable(M)
Nullable == compute_nullable({})

\* The state reached from state i along the symbols of w; 0 if none.
RECURSIVE Walk(_, _)
Walk(i, w) ==
    IF i = 0 \/ w = <<>> THEN i ELSE Walk(GotoTable[i][Head(w)], Tail(w))

NonterminalTransitions ==
    {t \in StateIds \X Nonterminals : GotoTable[t[1]][t[2]] # 0}

dr_relation ==
    [t \in NonterminalTransitions |->
        {a \in Terminals : GotoTable[GotoTable[t[1]][t[2]]][a] # 0}
        \cup (IF t[1] = 1 /\ t[2] = start_symbol THEN {EndMarker} ELSE {})]

reads_relation ==
    [t \in NonterminalTransitions |->
        {u \in NonterminalTransitions :
            u[1] = GotoTable[t[1]][t[2]] /\ u[2] \in Nullable}]

\* (i, A) includes (j, B) iff B -> beta A gamma, gamma nullable, j --beta--> i.
includes_relation ==
    [t \in NonterminalTransitions |->
        {u \in NonterminalTransitions :
            \E q \in ProdIds :
                /\ Productions[q].lhs = u[2]
                /\ \E k \in DOMAIN Productions[q].rhs :
                      /\ Productions[q].rhs[k] = t[2]
                      /\ \A m \in (k + 1)..Len(Productions[q].rhs) :
                            Productions[q].rhs[m] \in Nullable
                      /\ Walk(u[1], SubSeq(Productions[q].rhs, 1, k - 1)) = t[1]}]

\* The least F with F[x] = base[x] \cup UNION {F[y] : y \in rel[x]}.
RECURSIVE digraph(_, _)
digraph(F, rel) ==
    LET G == [x \in DOMAIN F |-> F[x] \cup UNION {F[y] : y \in rel[x]}]
    IN IF G = F THEN F ELSE digraph(G, rel)

read_sets == digraph(dr_relation, reads_relation)
follow_sets == digraph(read_sets, includes_relation)

\* The lookaheads of the complete item of production q in state i.
lookaheads ==
    [i \in StateIds |->
        [q \in ProdIds |->
            IF <<q, Len(Productions[q].rhs)>> \notin LRStates[i] THEN {}
            ELSE UNION {follow_sets[t] : t \in
                          {u \in NonterminalTransitions :
                              /\ u[2] = Productions[q].lhs
                              /\ Walk(u[1], Productions[q].rhs) = i}}]]

(***************************************************************************)
(* The parse table (ply.yacc.LRGeneratedTable.lr_parse_table).             *)
(***************************************************************************)
\* A token's (associativity, level); tokens outside the table get ('right', 0).
TokenPrecedence(a) ==
    IF \E k \in DOMAIN precedence : precedence[k][2] = a
    THEN LET k == CHOOSE n \in DOMAIN precedence : precedence[n][2] = a
         IN <<precedence[k][1], k>>
    ELSE <<"right", 0>>

\* For comparison: productions without a precedence of their own.
ProductionPrecedence_unset(q) == <<"right", 0>>

\* A production's precedence is that of its rightmost terminal.
ProductionPrecedence(q) ==
    LET rhs == Productions[q].rhs
        ts == {k \in DOMAIN rhs : rhs[k] \in Terminals}
    IN IF ts = {} THEN <<"right", 0>>
       ELSE TokenPrecedence(rhs[CHOOSE k \in ts : \A m \in ts : m <= k])

ErrorAction == [act |-> "error"]

\* A shift/reduce conflict between shifting token a (to state shift) and
\* reducing by production q: reduce if the production's level is higher, or
\* equal and left-associative; otherwise shift.
resolve_conflict(a, shift, q, s, r) ==
    IF shift = 0 THEN [act |-> "reduce", prod |-> q]
    ELSE IF s[2] < r[2] \/ (s[2] = r[2] /\ r[1] = "left")
         THEN [act |-> "reduce", prod |-> q]
    ELSE IF s[2] = r[2] /\ r[1] = "nonassoc" THEN ErrorAction
    ELSE [act |-> "shift", to |-> shift]

\* The action on lookahead a, given the productions reds that may reduce on
\* it and the state shift that a leads to (0: none).  A reduce/reduce
\* conflict goes to the production defined first.
choose_action(a, accept, reds, shift) ==
    IF accept THEN [act |-> "accept"]
    ELSE IF reds = {} THEN
            IF shift # 0 THEN [act |-> "shift", to |-> shift] ELSE ErrorAction
    ELSE resolve_conflict(a, shift, CHOOSE q \in reds : \A q2 \in reds : q <= q2,
                          TokenPrecedence(a),
                          ProductionPrecedence(CHOOSE q \in reds : \A q2 \in reds : q <= q2))

\* The action of state i on lookahead a.
lr_parse_table(C, G, la, i, a) ==
    choose_action(a,
                  a = EndMarker /\ <<1, 1>> \in C[i],
                  {q \in ProdIds : a \in la[i][q]},
                  IF a = EndMarker THEN 0 ELSE G[i][a])

ActionTable ==
    [i \in StateIds |->
        [a \in Lookaheads |-> lr_parse_table(LRStates, GotoTable, lookaheads, i, a)]]

\* yacc keeps the table as a dictionary per state that holds only the
\* lookaheads with an action, encoded as an integer: t > 0 shifts to state t,
\* t < 0 reduces by production -t, 0 accepts.
Encode(action) ==
    IF action.act = "shift" THEN action.to
    ELSE IF action.act = "reduce" THEN 0 - action.prod
    ELSE 0

lr_action(T) ==
    [i \in DOMAIN T |->
        [a \in {b \in DOMAIN T[i] : T[i][b] # ErrorAction} |-> Encode(T[i][a])]]

lr_goto(G) ==
    [i \in DOMAIN G |-> [x \in {y \in Nonterminals : G[i][y] # 0} |-> G[i][x]]]

\* The parser object ply.yacc.yacc returns.
yacc == [action |-> lr_action(ActionTable), goto |-> lr_goto(GotoTable)]

(***************************************************************************)
(* The semantic actions.  p is the slice p[1..n] of the symbols of the     *)
(* right-hand side; p[k].value is Python's p[k].  The result is the value  *)
(* left in p[0]: None when the method assigns nothing.                     *)
(***************************************************************************)
Raise(e) == [py |-> "raise", error |-> e]

p_jsonpath_binop(p) ==
    LET op == p[2].value
    IN IF op = PyStr(".") THEN Child(p[1].value, p[3].value)
       ELSE IF op = PyStr("..") THEN Descendants(p[1].value, p[3].value)
       ELSE IF op = PyStr("where") THEN Where(p[1].value, p[3].value)
       ELSE IF op = PyStr("|") THEN Union(p[1].value, p[3].value)
       ELSE IF op = PyStr("&") THEN Intersect(p[1].value, p[3].value)
       ELSE PyNone

p_jsonpath_fields(p) == Fields(p[1].value.items)

\* For comparison: every name but 'parent' read as 'this'.
p_jsonpath_named_operator_lenient(p) ==
    IF p[1].value = PyStr("parent") THEN Parent ELSE This

p_jsonpath_named_operator(p) ==
    IF p[1].value = PyStr("this") THEN This
    ELSE IF p[1].value = PyStr("parent") THEN Parent
    ELSE \* (the message quotes the name in backticks, which a TLA+ string cannot hold)
         Raise([msg |-> "Unknown named operator %s at %s:%s",
                args |-> <<p[1].value, p[1].lineno, p[1].lexpos>>])

p_jsonpath_root(p) == Root

p_jsonpath_idx(p) == p[2].value

p_jsonpath_slice(p) == p[2].value

p_jsonpath_fieldbrackets(p) == Fields(p[2].value.items)

p_jsonpath_child_fieldbrackets(p) == Child(p[1].value, Fields(p[3].value.items))

\* For comparison: the bracket replaces the expression instead of descending from it.
p_jsonpath_child_idxbrackets_bare(p) == p[3].value

p_jsonpath_child_idxbrackets(p) == Child(p[1].value, p[3].value)

p_jsonpath_child_slicebrackets(p) == Child(p[1].value, p[3].value)

p_jsonpath_parens(p) == p[2].value

p_fields_or_any(p) ==
    IF p[1].value = PyStr("*") THEN PyList(<<PyStr("*")>>) ELSE p[1].value

p_fields_id(p) == PyList(<<p[1].value>>)

p_fields_comma(p) == PyList(p[1].value.items \o p[3].value.items)

p_idx(p) == Index(p[1].value)

\* For comparison: '*' in brackets read as the wildcard field.
p_slice_any_fields(p) == Fields(<<PyStr("*")>>)

p_slice_any(p) == Slice(<<>>)

\* Slice(*p[1::2]): the values at positions 1, 3 (and 5).
p_slice(p) == Slice([k \in 1..((Len(p) + 1) \div 2) |-> p[2 * k - 1].value])

p_maybe_int(p) == p[1].value

\* For comparison: an omitted integer read as 0.
p_empty_zero(p) == PyInt(0)

p_empty(p) == PyNone

\* For comparison: an error that never names the token.
p_error_anonymous(t) == [msg |-> "Parse error near the end of string!", args |-> <<>>]

\* p_error(t): t is None at the end of the input.
p_error(t) ==
    IF t = PyNone THEN [msg |-> "Parse error near the end of string!", args |-> <<>>]
    ELSE [msg |-> "Parse error at %s:%s near token %s (%s)",
          args |-> <<t.lineno, t.lexpos, t.value, t.type>>]

(***************************************************************************)
(* Token streams.  A token is a LexToken: type, value, lineno, lexpos.     *)
(***************************************************************************)
LexToken(type, value, lexpos) ==
    [type |-> type, value |-> value, lineno |-> 1, lexpos |-> lexpos]

\* A stream from <<type, value>> pairs; lexpos is the place in the stream.
TokenStream(pairs) ==
    [k \in DOMAIN pairs |-> LexToken(pairs[k][1], pairs[k][2], k - 1)]

Lit(c) == <<c, PyStr(c)>>
Id(name) == <<"ID", PyStr(name)>>
Num(n) == <<"NUMBER", PyInt(n)>>
Named(name) == <<"NAMED_OPERATOR", PyStr(name)>>
DoubleDot == <<"DOUBLEDOT", PyStr("..")>>
WhereTok == <<"WHERE", PyStr("where")>>
\* A WHERE token built by hand, whose value is not the lexer's 'where'.
WhereUpper == <<"WHERE", PyStr("WHERE")>>

(***************************************************************************)
(* The inputs: bounded families of token streams.                          *)
(***************************************************************************)
MaxOps == 3          \* binary operators in a chain  a op b op c ...
MaxNum == 2          \* NUMBER values are 0..MaxNum
MaxFields == 3       \* items of a field list
MaxLen == 3          \* tokens of an arbitrary stream

RECURSIVE SeqsUpTo(_, _)
SeqsUpTo(S, n) ==
    IF n = 0 THEN {<<>>}
    ELSE LET shorter == SeqsUpTo(S, n - 1)
         IN shorter \cup {Append(w, x) : w \in {v \in shorter : Len(v) = n - 1}, x \in S}

\* a op b op c ...: single-field operands named by position.
OperandNames == <<"a", "b", "c", "d", "e", "f">>
BinaryOperators == {Lit("."), DoubleDot, WhereTok, Lit("|"), Lit("&")}
Chain(ops) ==
    [k \in 1..(2 * Len(ops) + 1) |->
        IF k % 2 = 1 THEN Id(OperandNames[(k + 1) \div 2]) ELSE ops[k \div 2]]
OperatorChains ==
    {Chain(ops) : ops \in SeqsUpTo(BinaryOperators \cup {WhereUpper}, MaxOps)}

\* e[c] and e.[c], and the bare [c].
LeftSides ==
    { <<>>,
      <<Id("a")>>,
      <<Id("a"), Lit("."), Id("b")>>,
      <<Id("a"), DoubleDot, Id("b")>>,
      <<Id("a"), Lit("|"), Id("b")>>,
      <<Id("a"), Lit("&"), Id("b")>>,
      <<Id("a"), WhereTok, Id("b")>>,
      <<Id("a"), DoubleDot, Id("b"), Lit("."), Id("c")>>,
      <<Lit("("), Id("a"), DoubleDot, Id("b"), Lit(")")>>,
      <<Lit("$")>>,
      <<Lit("*")>>,
      <<Named("this")>>,
      <<Named("parent")>> }
MaybeInts == {<<>>} \cup {<<Num(n)>> : n \in 0..MaxNum}
SliceContents ==
    {s \o <<Lit(":")>> \o e : s \in MaybeInts, e \in MaybeInts}
    \cup {s \o <<Lit(":")>> \o e \o <<Lit(":")>> \o t :
             s \in MaybeInts, e \in MaybeInts, t \in MaybeInts}
BracketContents ==
    {<<Num(n)>> : n \in 0..MaxNum}
    \cup {<<Lit("*")>>}
    \cup SliceContents
    \cup {<<Id("b")>>, <<Id("b"), Lit(","), Id("c")>>}
Bracketed(e, dot, c) ==
    e \o (IF dot THEN <<Lit(".")>> ELSE <<>>) \o <<Lit("[")>> \o c \o <<Lit("]")>>
BracketForms ==
    {Bracketed(e, dot, c) : e \in LeftSides, dot \in BOOLEAN, c \in BracketContents}

\* Field lists of up to MaxFields items separated by commas: bare, in brackets,
\* and in brackets after an expression.  An item is a name, the '*' token, or
\* an ID whose value is '*' (what a quoted "*" lexes to).
FieldItems == {Id("a"), Id("b"), Id("*"), Lit("*")}
Separated(items) ==
    [k \in 1..(2 * Len(items) - 1) |->
        IF k % 2 = 1 THEN items[(k + 1) \div 2] ELSE Lit(",")]
FieldLists ==
    LET lists == {Separated(items) : items \in SeqsUpTo(FieldItems, MaxFields) \ {<<>>}}
    IN lists
       \cup {<<Lit("[")>> \o w \o <<Lit("]")>> : w \in lists}
       \cup {<<Id("c"), Lit("[")>> \o w \o <<Lit("]")>> : w \in lists}

\* Arbitrary streams over the kinds of token the brackets, the parentheses
\* and the operators are made of, a name, a number, two named operators, a
\* hand-built WHERE and a token of a kind the grammar does not know.
Alphabet ==
    {Lit(c) : c \in {".", "|", "$", "[", "]", "(", ")", "*", ",", ":"}}
    \cup {DoubleDot, WhereTok, WhereUpper, Id("a"), Num(0),
          Named("this"), Named("other"), <<"COMMENT", PyStr("#")>>}
ArbitraryStreams == SeqsUpTo(Alphabet, MaxLen)

Inputs ==
    {TokenStream(w) : w \in OperatorChains \cup LeftSides \cup BracketForms
                              \cup FieldLists \cup ArbitraryStreams}

(***************************************************************************)
(* 3. The parse (JsonPathParser.parse_token_stream driving                 *)
(* ply.yacc.LRParser.parse over IteratorToTokenStream).                    *)
(***************************************************************************)
VARIABLES
    parser,      \* self.parser: the tables built by ply.yacc.yacc in __init__
    pc,          \* "idle", "parsing", "done" (returned) or "error" (raised)
    input,       \* the tokens of token_iterator
    consumed,    \* how many of them token() has handed out
    lookahead,   \* yacc's lookahead: None, a token, or the $end symbol
    statestack,  \* yacc's state stack
    symstack,    \* yacc's symbol stack: tokens and reduced symbols
    result,      \* what parse returned
    error        \* the JsonPathParserError raised
vars == <<parser, pc, input, consumed, lookahead, statestack, symstack, result, error>>

EndSymbol == [type |-> EndMarker]

Init ==
    /\ parser = yacc
    /\ pc = "idle"
    /\ input = <<>>
    /\ consumed = 0
    /\ lookahead = PyNone
    /\ statestack = <<1>>
    /\ symstack = <<EndSymbol>>
    /\ result = PyNone
    /\ error = PyNone

\* parse_token_stream(token_iterator): wrap the iterator and start yacc.
parse_token_stream ==
    /\ pc = "idle"
    /\ \E s \in Inputs : input' = s
    /\ pc' = "parsing"
    /\ UNCHANGED <<parser, consumed, lookahead, statestack, symstack, result, error>>

State == statestack[Len(statestack)]

\* A state with a single action, a reduce, is a defaulted state: yacc reduces
\* there without reading a lookahead (LRParser.set_defaulted_states).
Defaulted(row) ==
    /\ Cardinality(DOMAIN row) = 1
    /\ \A a \in DOMAIN row : row[a] < 0

Decode(t) ==
    IF t > 0 THEN [act |-> "shift", to |-> t]
    ELSE IF t < 0 THEN [act |-> "reduce", prod |-> 0 - t]
    ELSE [act |-> "accept"]

\* What yacc does next in the current state: actions[state].get(ltype).
CurrentAction ==
    LET row == parser.action[State]
    IN IF Defaulted(row) THEN Decode(row[CHOOSE a \in DOMAIN row : TRUE])
       ELSE IF lookahead = PyNone THEN [act |-> "token"]
       ELSE IF lookahead.type \in DOMAIN row THEN Decode(row[lookahead.type])
       ELSE ErrorAction

\* IteratorToTokenStream.token: the next token, or None when the iterator is
\* exhausted, which yacc turns into the $end symbol.
token ==
    /\ pc = "parsing"
    /\ CurrentAction.act = "token"
    /\ IF consumed < Len(input)
       THEN lookahead' = input[consumed + 1] /\ consumed' = consumed + 1
       ELSE lookahead' = EndSymbol /\ consumed' = consumed
    /\ UNCHANGED <<parser, pc, input, statestack, symstack, result, error>>

Shift ==
    /\ pc = "parsing"
    /\ CurrentAction.act = "shift"
    /\ statestack' = Append(statestack, CurrentAction.to)
    /\ symstack' = Append(symstack, lookahead)
    /\ lookahead' = PyNone
    /\ UNCHANGED <<parser, pc, input, consumed, result, error>>

\* yacc is about to reduce by a production of method func.
Reducing(func) ==
    /\ pc = "parsing"
    /\ CurrentAction.act = "reduce"
    /\ Productions[CurrentAction.prod].func = func

\* The symbols of the right-hand side, p[1..n].
Targ ==
    LET plen == Len(Productions[CurrentAction.prod].rhs)
    IN SubSeq(symstack, Len(symstack) - plen + 1, Len(symstack))

\* The method left v in p[0], or raised: pop the right-hand side and push the
\* reduced symbol, or end the parse with the error.
Reduced(v) ==
    LET q == CurrentAction.prod
        plen == Len(Productions[q].rhs)
        states == SubSeq(statestack, 1, Len(statestack) - plen)
    IN IF v.py = "raise"
       THEN /\ pc' = "error"
            /\ error' = v.error
            /\ UNCHANGED <<parser, input, consumed, lookahead, statestack, symstack, result>>
       ELSE /\ symstack' = Append(SubSeq(symstack, 1, Len(symstack) - plen),
                                  [type |-> Productions[q].lhs, value |-> v])
            /\ statestack' = Append(states,
                                    parser.goto[states[Len(states)]][Productions[q].lhs])
            /\ UNCHANGED <<parser, pc, input, consumed, lookahead, result, error>>

Reduce_jsonpath_binop == Reducing("p_jsonpath_binop") /\ Reduced(p_jsonpath_binop(Targ))
Reduce_jsonpath_fields == Reducing("p_jsonpath_fields") /\ Reduced(p_jsonpath_fields(Targ))
Reduce_jsonpath_named_operator ==
    Reducing("p_jsonpath_named_operator") /\ Reduced(p_jsonpath_named_operator(Targ))
Reduce_jsonpath_root == Reducing("p_jsonpath_root") /\ Reduced(p_jsonpath_root(Targ))
Reduce_jsonpath_idx == Reducing("p_jsonpath_idx") /\ Reduced(p_jsonpath_idx(Targ))
Reduce_jsonpath_slice == Reducing("p_jsonpath_slice") /\ Reduced(p_jsonpath_slice(Targ))
Reduce_jsonpath_fieldbrackets ==
    Reducing("p_jsonpath_fieldbrackets") /\ Reduced(p_jsonpath_fieldbrackets(Targ))
Reduce_jsonpath_child_fieldbrackets ==
    Reducing("p_jsonpath_child_fieldbrackets")
    /\ Reduced(p_jsonpath_child_fieldbrackets(Targ))
Reduce_jsonpath_child_idxbrackets ==
    Reducing("p_jsonpath_child_idxbrackets") /\ Reduced(p_jsonpath_child_idxbrackets(Targ))
Reduce_jsonpath_child_slicebrackets ==
    Reducing("p_jsonpath_child_slicebrackets")
    /\ Reduced(p_jsonpath_child_slicebrackets(Targ))
Reduce_jsonpath_parens == Reducing("p_jsonpath_parens") /\ Reduced(p_jsonpath_parens(Targ))
Reduce_fields_or_any == Reducing("p_fields_or_any") /\ Reduced(p_fields_or_any(Targ))
Reduce_fields_id == Reducing("p_fields_id") /\ Reduced(p_fields_id(Targ))
Reduce_fields_comma == Reducing("p_fields_comma") /\ Reduced(p_fields_comma(Targ))
Reduce_idx == Reducing("p_idx") /\ Reduced(p_idx(Targ))
Reduce_slice_any == Reducing("p_slice_any") /\ Reduced(p_slice_any(Targ))
Reduce_slice == Reducing("p_slice") /\ Reduced(p_slice(Targ))
Reduce_maybe_int == Reducing("p_maybe_int") /\ Reduced(p_maybe_int(Targ))
Reduce_empty == Reducing("p_empty") /\ Reduced(p_empty(Targ))

\* The table has no action: yacc calls p_error with the lookahead (None for
\* $end), and p_error raises.
SyntaxError ==
    /\ pc = "parsing"
    /\ CurrentAction.act = "error"
    /\ error' = p_error(IF lookahead.type = EndMarker THEN PyNone ELSE lookahead)
    /\ pc' = "error"
    /\ UNCHANGED <<parser, input, consumed, lookahead, statestack, symstack, result>>

\* yacc accepts: parse returns the value on top of the symbol stack.
Accept ==
    /\ pc = "parsing"
    /\ CurrentAction.act = "accept"
    /\ result' = symstack[Len(symstack)].value
    /\ pc' = "done"
    /\ UNCHANGED <<parser, input, consumed, lookahead, statestack, symstack, error>>

Next ==
    \/ parse_token_stream
    \/ token
    \/ Shift
    \/ Reduce_jsonpath_binop
    \/ Reduce_jsonpath_fields
    \/ Reduce_jsonpath_named_operator
    \/ Reduce_jsonpath_root
    \/ Reduce_jsonpath_idx
    \/ Reduce_jsonpath_slice
    \/ Reduce_jsonpath_fieldbrackets
    \/ Reduce_jsonpath_child_fieldbrackets
    \/ Reduce_jsonpath_child_idxbrackets
    \/ Reduce_jsonpath_child_slicebrackets
    \/ Reduce_jsonpath_parens
    \/ Reduce_fields_or_any
    \/ Reduce_fields_id
    \/ Reduce_fields_comma
    \/ Reduce_idx
    \/ Reduce_slice_any
    \/ Reduce_slice
    \/ Reduce_maybe_int
    \/ Reduce_empty
    \/ SyntaxError
    \/ Accept

Spec == Init /\ [][Next]_vars

(***************************************************************************)
(* 4. Properties of the parse.                                             *)
(***************************************************************************)
Finished == pc \in {"done", "error"}

\* The parse of the tokens w returns v.
Yields(w, v) ==
    (Finished /\ input = TokenStream(w)) => (pc = "done" /\ result = v)

\* The parse of the tokens w raises e and returns nothing.
Fails(w, e) ==
    (Finished /\ input = TokenStream(w)) => (pc = "error" /\ error = e /\ result = PyNone)

Returned(w) == pc = "done" /\ input = TokenStream(w)

\* A table of cases is a set of pairs <<stream, tree>>.  The parse agrees with
\* the table when, its input being one of the streams, it returns the tree
\* the table gives for it.
Case(w, v) == <<TokenStream(w), v>>
Agrees(streams, cases) ==
    (Finished /\ input \in streams) => (pc = "done" /\ <<input, result>> \in cases)

\* Fields(name), and the node each operator token stands for.
F(name) == Fields(<<PyStr(name)>>)
NodeOf(op, l, r) ==
    CASE op = Lit(".") -> Child(l, r)
      [] op = DoubleDot -> Descendants(l, r)
      [] op = WhereTok -> Where(l, r)
      [] op = Lit("|") -> Union(l, r)
      [] op = Lit("&") -> Intersect(l, r)

\* The three errors.
UnexpectedToken(t) ==
    [msg |-> "Parse error at %s:%s near token %s (%s)",
     args |-> <<t.lineno, t.lexpos, t.value, t.type>>]
EndOfInput == [msg |-> "Parse error near the end of string!", args |-> <<>>]
UnknownNamedOperator(t) ==
    [msg |-> "Unknown named operator %s at %s:%s", args |-> <<t.value, t.lineno, t.lexpos>>]

(***************************************************************************)
(* The language of the grammar, read off the productions alone: Derives    *)
(* tells whether a symbol derives a string of token kinds, Prefix whether  *)
(* a string begins some string the symbol derives.                         *)
(***************************************************************************)
LowerBound(rhs) == Cardinality({k \in DOMAIN rhs : rhs[k] \notin Nullable})

\* How many symbols of w the first symbol of rhs may cover: one if it is a
\* terminal, which must be the first of w; all of w if it is the only symbol;
\* otherwise what leaves room for the rest, and ends where the next symbol,
\* if a terminal, stands.
Cuts(rhs, w) ==
    IF rhs[1] \notin Nonterminals
    THEN IF w # <<>> /\ w[1] = rhs[1] THEN {1} ELSE {}
    ELSE IF Len(rhs) = 1 THEN {Len(w)}
    ELSE {k \in LowerBound(<<rhs[1]>>)..(Len(w) - LowerBound(Tail(rhs))) :
             rhs[2] \notin Nonterminals => w[k + 1] = rhs[2]}

RECURSIVE Derives(_, _), DerivesSeq(_, _)
Derives(x, w) ==
    IF x \notin Nonterminals THEN w = <<x>>
    ELSE \E q \in ProdIds \ {1} :
            Productions[q].lhs = x /\ DerivesSeq(Productions[q].rhs, w)
DerivesSeq(rhs, w) ==
    IF rhs = <<>> THEN w = <<>>
    ELSE \E k \in Cuts(rhs, w) :
            /\ Derives(rhs[1], SubSeq(w, 1, k))
            /\ DerivesSeq(Tail(rhs), SubSeq(w, k + 1, Len(w)))

\* top is the left-hand side while at the first symbol of a production: a
\* prefix that lies wholly inside a left-recursive first symbol is the
\* question being asked, and adds nothing.
\* The same for a w that may stop short of the end of rhs and goes on past
\* the first symbol.
PrefixCuts(rhs, w) ==
    IF rhs[1] \notin Nonterminals
    THEN IF Len(w) >= 2 /\ w[1] = rhs[1] THEN {1} ELSE {}
    ELSE {k \in LowerBound(<<rhs[1]>>)..(Len(w) - 1) :
             rhs[2] \notin Nonterminals => w[k + 1] = rhs[2]}

RECURSIVE Prefix(_, _), PrefixSeq(_, _, _)
Prefix(x, w) ==
    \/ w = <<>>
    \/ IF x \notin Nonterminals THEN w = <<x>>
       ELSE \E q \in ProdIds \ {1} :
               Productions[q].lhs = x /\ PrefixSeq(x, Productions[q].rhs, w)
PrefixSeq(top, rhs, w) ==
    \/ w = <<>>
    \/ /\ rhs # <<>>
       /\ \/ rhs[1] # top /\ Prefix(rhs[1], w)
          \/ /\ Len(rhs) >= 2
             /\ \E k \in PrefixCuts(rhs, w) :
                   /\ Derives(rhs[1], SubSeq(w, 1, k))
                   /\ PrefixSeq(NoSymbol, Tail(rhs), SubSeq(w, k + 1, Len(w)))

Kinds(s) == [k \in DOMAIN s |-> s[k].type]
InLanguage(s) == Derives(start_symbol, Kinds(s))
Viable(s) == Prefix(start_symbol, Kinds(s))


(***************************************************************************)
(* Precedence and associativity.                                           *)
(***************************************************************************)
\* The operators from the loosest to the tightest.
BindingStrength == <<DoubleDot, Lit("."), Lit("|"), Lit("&"), WhereTok>>

\* For every pair of operators lo below hi: "a lo b hi c" nests hi under lo
\* on the right, "a hi b lo c" nests hi under lo on the left.
PrecedenceCases ==
    LET pairs == {ij \in (DOMAIN BindingStrength) \X (DOMAIN BindingStrength) : ij[1] < ij[2]}
        lo(ij) == BindingStrength[ij[1]]
        hi(ij) == BindingStrength[ij[2]]
    IN {Case(Chain(<<lo(ij), hi(ij)>>),
             NodeOf(lo(ij), F("a"), NodeOf(hi(ij), F("b"), F("c")))) : ij \in pairs}
       \cup {Case(Chain(<<hi(ij), lo(ij)>>),
                  NodeOf(lo(ij), NodeOf(hi(ij), F("a"), F("b")), F("c"))) : ij \in pairs}
PrecedenceStreams == {x[1] : x \in PrecedenceCases}

\* C1: for every pair of operators lo, hi with lo below hi in the order
\* '..' < '.' < '|' < '&' < 'where', "a lo b hi c" compiles to
\* Node_lo(Fields(a), Node_hi(Fields(b), Fields(c))) and "a hi b lo c" to
\* Node_lo(Node_hi(Fields(a), Fields(b)), Fields(c)).
C1_Precedence == Agrees(PrecedenceStreams, PrecedenceCases)

\* "a..b where c" has returned Descendants(a, Where(b, c)).
C1_Witness ==
    /\ Returned(Chain(<<DoubleDot, WhereTok>>))
    /\ result = Descendants(F("a"), Where(F("b"), F("c")))

\* C2, as the code has it: "a|b.c" compiles to
\* Child(Union(Fields(a), Fields(b)), Fields(c)) and "a.b where c.d" to
\* Child(Child(Fields(a), Where(Fields(b), Fields(c))), Fields(d)): '|' and
\* 'where' bind tighter than '.'.
C2_UnionAndWhereBindTighter ==
    Finished =>
        /\ Yields(Chain(<<Lit("|"), Lit(".")>>), Child(Union(F("a"), F("b")), F("c")))
        /\ Yields(Chain(<<Lit("."), WhereTok, Lit(".")>>),
                  Child(Child(F("a"), Where(F("b"), F("c"))), F("d")))

\* "a.b where c.d" has returned Child(Child(a, Where(b, c)), d).
C2_Witness ==
    /\ Returned(Chain(<<Lit("."), WhereTok, Lit(".")>>))
    /\ result = Child(Child(F("a"), Where(F("b"), F("c"))), F("d"))

\* C2, as stated: '.' binds tighter than '|' and than 'where', so "a|b.c"
\* compiles to Union(Fields(a), Child(Fields(b), Fields(c))) and
\* "a.b where c.d" to Where(Child(Fields(a), Fields(b)), Child(Fields(c), Fields(d))).
C2_ChildBindsTighter ==
    Finished =>
        /\ Yields(Chain(<<Lit("|"), Lit(".")>>), Union(F("a"), Child(F("b"), F("c"))))
        /\ Yields(Chain(<<Lit("."), WhereTok, Lit(".")>>),
                  Where(Child(F("a"), F("b")), Child(F("c"), F("d"))))

\* The left-nested tree of n applications of op to the operands a, b, c, ...
RECURSIVE LeftNested(_, _)
LeftNested(op, n) ==
    IF n = 0 THEN F(OperandNames[1])
    ELSE NodeOf(op, LeftNested(op, n - 1), F(OperandNames[n + 1]))

\* Chains of two and more of one operator, with their left-nested trees.
AssociativityCases ==
    {Case(Chain([k \in 1..opn[2] |-> opn[1]]), LeftNested(opn[1], opn[2])) :
        opn \in BinaryOperators \X (2..MaxOps)}
AssociativityStreams == {x[1] : x \in AssociativityCases}

\* C3: every binary operator is left-associative: "a op b op c" compiles to
\* Node(Node(Fields(a), Fields(b)), Fields(c)), and so on for longer chains
\* of one operator; "a.b.c" compiles to Child(Child(Fields(a), Fields(b)), Fields(c)).
C3_LeftAssociative ==
    /\ Agrees(AssociativityStreams, AssociativityCases)
    /\ Finished =>
          Yields(Chain(<<Lit("."), Lit(".")>>), Child(Child(F("a"), F("b")), F("c")))

\* "a.b.c" has returned Child(Child(a, b), c).
C3_Witness ==
    /\ Returned(Chain(<<Lit("."), Lit(".")>>))
    /\ result = Child(Child(F("a"), F("b")), F("c"))

(***************************************************************************)
(* Brackets.                                                               *)
(***************************************************************************)
SliceNode(start, end, step) == [py |-> "Slice", start |-> start, end |-> end, step |-> step]

\* The integer written at a position of a slice, None where none is written.
Written(m) == IF m = <<>> THEN PyNone ELSE m[1][2]

\* What each bracket content stands for.
ContentTree(c) ==
    IF c = <<Lit("*")>> THEN SliceNode(PyNone, PyNone, PyNone)
    ELSE IF c = <<Id("b")>> THEN F("b")
    ELSE IF c = <<Id("b"), Lit(","), Id("c")>> THEN Fields(<<PyStr("b"), PyStr("c")>>)
    ELSE IF \E n \in 0..MaxNum : c = <<Num(n)>> THEN Index(c[1][2])
    ELSE IF \E s, e \in MaybeInts : c = s \o <<Lit(":")>> \o e
         THEN LET se == CHOOSE se \in MaybeInts \X MaybeInts :
                            c = se[1] \o <<Lit(":")>> \o se[2]
              IN SliceNode(Written(se[1]), Written(se[2]), PyNone)
    ELSE LET st == CHOOSE st \in MaybeInts \X MaybeInts \X MaybeInts :
                      c = st[1] \o <<Lit(":")>> \o st[2] \o <<Lit(":")>> \o st[3]
         IN SliceNode(Written(st[1]), Written(st[2]), Written(st[3]))

\* What each left-hand side compiles to on its own.
LeftTree(e) ==
    CASE e = <<Id("a")>> -> F("a")
      [] e = <<Id("a"), Lit("."), Id("b")>> -> Child(F("a"), F("b"))
      [] e = <<Id("a"), DoubleDot, Id("b")>> -> Descendants(F("a"), F("b"))
      [] e = <<Id("a"), Lit("|"), Id("b")>> -> Union(F("a"), F("b"))
      [] e = <<Id("a"), Lit("&"), Id("b")>> -> Intersect(F("a"), F("b"))
      [] e = <<Id("a"), WhereTok, Id("b")>> -> Where(F("a"), F("b"))
      [] e = <<Id("a"), DoubleDot, Id("b"), Lit("."), Id("c")>> ->
             Descendants(F("a"), Child(F("b"), F("c")))
      [] e = <<Lit("("), Id("a"), DoubleDot, Id("b"), Lit(")")>> ->
             Descendants(F("a"), F("b"))
      [] e = <<Lit("$")>> -> Root
      [] e = <<Lit("*")>> -> F("*")
      [] e = <<Named("this")>> -> This
      [] e = <<Named("parent")>> -> Parent

\* The left-hand sides whose last operator to apply is a bare '..'.
EndsInDescendants ==
    { <<Id("a"), DoubleDot, Id("b")>>,
      <<Id("a"), DoubleDot, Id("b"), Lit("."), Id("c")>> }

\* Every left-hand side e on its own, with its tree.
LeftCases == {Case(e, LeftTree(e)) : e \in LeftSides \ {<<>>}}
LeftStreams == {x[1] : x \in LeftCases}

\* "e[c]" for every left-hand side e and bracket content c: Child(e, c).
ShortCases ==
    {Case(Bracketed(ec[1], FALSE, ec[2]), Child(LeftTree(ec[1]), ContentTree(ec[2]))) :
        ec \in (LeftSides \ {<<>>}) \X BracketContents}
ShortStreams == {x[1] : x \in ShortCases}

\* "e.[c]", were it the same as "e[c]": Child(e, c).
DottedAsShortCases ==
    {Case(Bracketed(ec[1], TRUE, ec[2]), Child(LeftTree(ec[1]), ContentTree(ec[2]))) :
        ec \in (LeftSides \ {<<>>}) \X BracketContents}

\* "e.[c]" as it is: Child(e, c), but Descendants(l, Child(r, c)) when e is
\* an unparenthesised "l..r".
DottedCases ==
    {Case(Bracketed(ec[1], TRUE, ec[2]),
          IF ec[1] \in EndsInDescendants
          THEN Descendants(LeftTree(ec[1]).left,
                           Child(LeftTree(ec[1]).right, ContentTree(ec[2])))
          ELSE Child(LeftTree(ec[1]), ContentTree(ec[2]))) :
        ec \in (LeftSides \ {<<>>}) \X BracketContents}
DottedStreams == {x[1] : x \in DottedCases}

\* C4, as the code has it: for every left-hand side e and bracket content c,
\* e compiles to a tree t, "e[c]" compiles to Child(t, c), and "e.[c]"
\* compiles to the same tree unless e is an unparenthesised "l..r": then
\* t is Descendants(l, r) and "e.[c]" compiles to Descendants(l, Child(r, c)),
\* which differs from "e[c]".  "a[0]" compiles to Child(Fields(a), Index(0)).
C4_BracketShorthand ==
    /\ Agrees(LeftStreams, LeftCases)
    /\ Agrees(ShortStreams, ShortCases)
    /\ Agrees(DottedStreams, DottedCases)
    /\ Finished =>
          Yields(<<Id("a"), Lit("["), Num(0), Lit("]")>>, Child(F("a"), Index(PyInt(0))))

\* "a..b.[0]" has returned Descendants(a, Child(b, Index(0))).
C4_Witness ==
    /\ Returned(<<Id("a"), DoubleDot, Id("b"), Lit("."), Lit("["), Num(0), Lit("]")>>)
    /\ result = Descendants(F("a"), Child(F("b"), Index(PyInt(0))))

\* C4, as stated: for every left-hand side e and bracket content c, "e[c]"
\* and "e.[c]" both compile, to the same tree Child(e, c).
C4_ShorthandEqualsDotted ==
    /\ Agrees(ShortStreams, ShortCases)
    /\ Agrees(DottedStreams, DottedAsShortCases)

\* "[s:e]" and "[s:e:t]" for every choice of written and omitted integers.
SliceCases ==
    {Case(Bracketed(<<>>, FALSE, se[1] \o <<Lit(":")>> \o se[2]),
          SliceNode(Written(se[1]), Written(se[2]), PyNone)) :
        se \in MaybeInts \X MaybeInts}
    \cup {Case(Bracketed(<<>>, FALSE,
                         st[1] \o <<Lit(":")>> \o st[2] \o <<Lit(":")>> \o st[3]),
               SliceNode(Written(st[1]), Written(st[2]), Written(st[3]))) :
             st \in MaybeInts \X MaybeInts \X MaybeInts}
SliceStreams == {x[1] : x \in SliceCases}

C6_Star ==
    Finished =>
        /\ Yields(<<Lit("*")>>, Fields(<<PyStr("*")>>))
        /\ Yields(<<Lit("["), Lit("*"), Lit("]")>>, SliceNode(PyNone, PyNone, PyNone))
        /\ Returned(<<Lit("["), Lit("*"), Lit("]")>>) => result.py # "Fields"
        /\ Yields(<<Id("a"), Lit("["), Lit("*"), Lit("]")>>,
                  Child(F("a"), SliceNode(PyNone, PyNone, PyNone)))

\* "[*]" has returned Slice(None, None, None).
C6_Witness ==
    /\ Returned(<<Lit("["), Lit("*"), Lit("]")>>)
    /\ result = SliceNode(PyNone, PyNone, PyNone)

(***************************************************************************)
(* Field lists and the shape of the result.                                *)
(***************************************************************************)
BinaryNodes == {"Child", "Descendants", "Where", "Union", "Intersect"}
LeafNodes == {"Root", "This", "Parent", "Fields", "Index", "Slice"}

\* The Fields nodes of a tree.
RECURSIVE FieldsNodes(_)
FieldsNodes(v) ==
    IF v.py = "Fields" THEN {v}
    ELSE IF v.py \in BinaryNodes THEN FieldsNodes(v.left) \cup FieldsNodes(v.right)
    ELSE {}

Wildcard == PyStr("*")

\* C7, as stated: every Fields node of a returned tree holds either the
\* wildcard marker alone or one or more names and no wildcard marker, the
\* names in the order of the ID tokens with duplicates kept; "a,*" and "*,a"
\* are rejected with a parse error.
C7_FieldsNeverMix ==
    Finished =>
        /\ pc = "done" =>
              \A f \in FieldsNodes(result) :
                  \/ f.fields = <<Wildcard>>
                  \/ /\ Len(f.fields) >= 1
                     /\ \A k \in DOMAIN f.fields : f.fields[k] # Wildcard
        /\ \A names \in SeqsUpTo({Id("a"), Id("b")}, MaxFields) \ {<<>>} :
              Yields(Separated(names), Fields([k \in DOMAIN names |-> names[k][2]]))
        /\ input = TokenStream(<<Id("a"), Lit(","), Lit("*")>>) =>
              (pc = "error" /\ error = UnexpectedToken(input[3]))
        /\ input = TokenStream(<<Lit("*"), Lit(","), Id("a")>>) =>
              (pc = "error" /\ error = UnexpectedToken(input[2]))

\* A node of the closed set of variants, with two nodes under every binary node.
RECURSIVE IsNode(_)
IsNode(v) ==
    \/ v.py \in LeafNodes
    \/ v.py \in BinaryNodes /\ IsNode(v.left) /\ IsNode(v.right)

\* C10, as stated: whatever token stream the parse succeeds on, the value
\* returned is a node, and every binary node in it holds two nodes, none absent.
C10_BinaryNodesComplete ==
    pc = "done" => IsNode(result)

(***************************************************************************)
(* Errors.                                                                 *)
(***************************************************************************)
\* The places of the named operators that are neither 'this' nor 'parent'.
UnknownNames(s) ==
    {k \in DOMAIN s : /\ s[k].type = "NAMED_OPERATOR"
                      /\ s[k].value \notin {PyStr("this"), PyStr("parent")}}

\* The parse stopped at a token that fits no production: the tokens before
\* it begin a sentence of the grammar, and with it they do not.
StoppedAtToken ==
    /\ consumed >= 1
    /\ lookahead = input[consumed]
    /\ error = UnexpectedToken(input[consumed])
    /\ Viable(SubSeq(input, 1, consumed - 1))
    /\ ~Viable(SubSeq(input, 1, consumed))

\* The parse stopped at the end of a stream that begins a sentence and is none.
StoppedAtEnd ==
    /\ consumed = Len(input)
    /\ lookahead = EndSymbol
    /\ error = EndOfInput
    /\ Viable(input)
    /\ ~InLanguage(input)

\* The parse stopped at the first unknown named operator.
StoppedAtUnknownName ==
    /\ UnknownNames(input) # {}
    /\ LET k == CHOOSE k \in UnknownNames(input) : \A m \in UnknownNames(input) : k <= m
       IN /\ k <= consumed
          /\ error = UnknownNamedOperator(input[k])

\* C8, as the code has it: a token stream that is no sentence of the grammar
\* returns nothing and raises one error: the unexpected-token error with the
\* line, offset, value and kind of the first token that fits no production,
\* or the end-of-input error when the stream ends with a production
\* incomplete, unless the parse reduces a named operator that is neither
\* 'this' nor 'parent' before it gets there: then the error is the
\* unknown-named-operator error for that name.  "$." and the empty stream
\* raise the end-of-input error.
C8_FailFast ==
    Finished =>
        /\ pc = "done" => InLanguage(input)
        /\ pc = "error" =>
              /\ result = PyNone
              /\ StoppedAtToken \/ StoppedAtEnd \/ StoppedAtUnknownName
        /\ Fails(<<Lit("$"), Lit(".")>>, EndOfInput)
        /\ Fails(<<>>, EndOfInput)

\* "a ]" has raised the unexpected-token error for the ']' at offset 1.
C8_Witness ==
    /\ pc = "error"
    /\ input = TokenStream(<<Id("a"), Lit("]")>>)
    /\ error = UnexpectedToken(LexToken("]", PyStr("]"), 1))
    /\ result = PyNone

\* C8, as stated: a token stream that is no sentence of the grammar returns
\* nothing and raises the unexpected-token error for the first token that
\* fits no production, or the end-of-input error when the stream ends with a
\* production incomplete.
C8_TokenOrEndOnly ==
    (Finished /\ ~(pc = "error" /\ result = PyNone /\ (StoppedAtToken \/ StoppedAtEnd)))
        => InLanguage(input)

\* C9: the stream of one NAMED_OPERATOR token compiles to This() for 'this'
\* and to Parent() for 'parent'; for any other name the parse ends with the
\* unknown-named-operator error, which carries the name and the token's line
\* and offset and is neither of the two syntax errors, and returns nothing.
\* No stream with such a name in it compiles.
C9_NamedOperators ==
    Finished =>
        /\ Yields(<<Named("this")>>, This)
        /\ Yields(<<Named("parent")>>, Parent)
        /\ Fails(<<Named("other")>>,
                 UnknownNamedOperator(LexToken("NAMED_OPERATOR", PyStr("other"), 0)))
        /\ Fails(<<Id("a"), Lit("."), Named("other")>>,
                 UnknownNamedOperator(LexToken("NAMED_OPERATOR", PyStr("other"), 2)))
        /\ pc = "done" => UnknownNames(input) = {}
        /\ \A k \in UnknownNames(input) :
              /\ UnknownNamedOperator(input[k]) # EndOfInput
              /\ \A m \in DOMAIN input :
                    UnknownNamedOperator(input[k]) # UnexpectedToken(input[m])

\* "a.`other`" has raised the unknown-named-operator error for offset 2.
C9_Witness ==
    /\ pc = "error"
    /\ input = TokenStream(<<Id("a"), Lit("."), Named("other")>>)
    /\ error = UnknownNamedOperator(input[3])
    /\ result = PyNone

=============================================================================
